---- MODULE Spec2Model ----
(***************************************************************************)
(* Model of MetaDate Renamer (src/main.py): the scan / plan / execute      *)
(* pipeline of class App.  A directory is scanned in sorted order, every   *)
(* media file with a capture date gets a proposed name                     *)
(* <formatted>_<count><suffix>, and the rename jobs are then executed on a *)
(* thread pool while a collector task updates the entries and the progress *)
(* bar.                                                                    *)
(*                                                                         *)
(* File names are records [stem, date, n, ext]:                            *)
(*   "a.jpg"                      [stem |-> 1, date |-> -1, n |-> -1, ...] *)
(*   "2022-01-01_00-00-00_0.jpg"  [stem |-> 0, date |-> 1,  n |-> 0,  ...] *)
(*   "2022-01-01_00-00-00.jpg"    [stem |-> 0, date |-> 1,  n |-> -1, ...] *)
(* stem > 0 is the rank of a stem that is not date-shaped ("a" < "b" ...), *)
(* stem = 0 says the stem is the date text `date`, optionally followed by  *)
(* "_<n>".  A capture timestamp is <<second, microsecond>>; None is <<>>.  *)
(***************************************************************************)
EXTENDS Integers, Sequences, FiniteSets

\* ---------------------------------------------------------------- bounds
\* the media files of the directory
MaxFiles == 2
\* the scans requested, and the batches started, in one behaviour
MaxCycles == 2
\* the events of the environment in one behaviour: files created by other
\* processes and renames the operating system refuses
MaxEnv == 1

\* ------------------------------------------------------------- constants
IMAGE_FILE_EXTENSIONS ==
    {".tiff", ".tif", ".jpg", ".jpeg", ".jpe", ".jif", ".jfif", ".jfi", ".png",
     ".webp", ".heif", ".heifs", ".heic", ".heics", ".avci", ".avcs", ".hif"}

VIDEO_FILE_EXTENSIONS ==
    {".avi", ".mp4", ".mov", ".mkv", ".flv", ".wmv", ".mpeg", ".webm"}

\* class Status
READY == "Ready"
NO_CHANGE == "No Change"
NO_DATE_FOUND == "No Date Found"
CONFLICT == "Conflict"
RENAMED == "Renamed"
ERROR == "Error"

None == <<>>

\* ----------------------------------------------------------------- names
PlainName(i, e) == [stem |-> i, date |-> -1, n |-> -1, ext |-> e]

CanonName(f, k, e) == [stem |-> 0, date |-> f, n |-> k, ext |-> e]

\* the empty string, the proposed name of an entry without a date
EmptyName == [stem |-> 0, date |-> -1, n |-> -1, ext |-> ""]

\* the timestamps metadata can hold: strptime of an EXIF text has no
\* microseconds, a container's native creation date can have them
ImageDates == {None, <<1, 0>>, <<2, 0>>}

VideoDates == {None, <<1, 0>>, <<1, 5>>}

Timestamps == (ImageDates \cup VideoDates) \ {None}

\* str.lower() on the extensions of the modelled directory: ".jpg" (an
\* image), ".MKV" (a video, upper case on disk) and ".txt" (unsupported)
lower(e) == IF e = ".MKV" THEN ".mkv" ELSE e

\* Path.suffix
suffix(name) == name.ext

\* timestamp.strftime(TARGET_DATE_FORMAT): the text has seconds only, the
\* microseconds are dropped
strftime(ts) == ts[1]

\* the pattern without its (_\d+)? group
regex_without_counter(name) == name.stem = 0 /\ name.date >= 0 /\ name.n = -1

\* RENAMED_REGEX.match(name): a date-shaped stem, an optional _<digits> and
\* an optional extension
RENAMED_REGEX(name) == name.stem = 0 /\ name.date >= 0 /\ name.n >= -1

\* the code points that order the modelled extensions ("M" < "j" < "t")
ExtRank(e) == CASE e = "" -> 0 [] e = ".MKV" -> 1 [] e = ".jpg" -> 2 [] OTHER -> 3

\* the order of sorted() on paths: digits before letters, "." before "_"
NameKey(name) == <<name.stem, name.date, name.n, ExtRank(name.ext)>>

KeyLess(a, b) ==
    \E i \in 1..4 : a[i] < b[i] /\ \A j \in 1..(i - 1) : a[j] = b[j]

NameLess(x, y) == KeyLess(NameKey(x), NameKey(y))

\* the listing taken in the opposite order
RECURSIVE reverse_sorted(_)
reverse_sorted(S) ==
    IF S = {} THEN <<>>
    ELSE LET m == CHOOSE x \in S : \A y \in S \ {x} : NameLess(y, x)
         IN <<m>> \o reverse_sorted(S \ {m})

\* sorted(directory.iterdir())
RECURSIVE sorted(_)
sorted(S) ==
    IF S = {} THEN <<>>
    ELSE LET m == CHOOSE x \in S : \A y \in S \ {x} : NameLess(x, y)
         IN <<m>> \o sorted(S \ {m})

\* ------------------------------------------------------------ filesystem
\* a directory is a set of entries [name, kind, date]; date is what the
\* metadata of the file holds
iterdir(d) == {e.name : e \in d}

exists(d, name) == \E e \in d : e.name = name

is_file(d, name) == \E e \in d : e.name = name /\ e.kind = "file"

Entry(d, name) == CHOOSE e \in d : e.name = name

extract_date_from_image(d, name) ==
    IF is_file(d, name) THEN Entry(d, name).date ELSE None

extract_date_from_video(d, name) ==
    IF is_file(d, name) THEN Entry(d, name).date ELSE None

\* -------------------------------------------------------------- metadata
\* What an extractor reads from one file: [kind, readable, tags].  A tag
\* is absent, a text in the expected date format, a text that is not in
\* that format, or (a container's creation_date) a native datetime.
NoValue == [present |-> FALSE, native |-> FALSE, valid |-> FALSE, ts |-> None]

Text(ts) == [present |-> TRUE, native |-> FALSE, valid |-> TRUE, ts |-> ts]

BadText == [present |-> TRUE, native |-> FALSE, valid |-> FALSE, ts |-> None]

Native(ts) == [present |-> TRUE, native |-> TRUE, valid |-> TRUE, ts |-> ts]

EXIF_DATE_TAGS == <<"EXIF DateTimeOriginal", "Image DateTime">>

TagTexts == {NoValue, BadText} \cup {Text(t) : t \in ImageDates \ {None}}

Images ==
    [kind : {"image"}, readable : BOOLEAN,
     tags : [{"EXIF DateTimeOriginal", "Image DateTime"} -> TagTexts]]

Videos ==
    [kind : {"video"}, readable : BOOLEAN,
     tags : [{"creation_date"} -> {NoValue, BadText, Text(<<1, 0>>), Native(<<1, 5>>)}]]

\* an exception that leaves the extractor
Raised == <<-1>>

\* datetime.strptime(text, format): ValueError on a text that does not match
strptime(value) == IF value.valid THEN value.ts ELSE Raised

\* try: ... except Exception: log; return None
except_Exception(result) == IF result = Raised THEN None ELSE result

\* the loop over EXIF_DATE_TAGS: the first tag that is present is parsed
RECURSIVE first_tag(_, _)
first_tag(tags, names) ==
    IF names = <<>> THEN None
    ELSE IF tags[Head(names)].present THEN strptime(tags[Head(names)])
    ELSE first_tag(tags, Tail(names))

\* main.py, extract_date_from_image on the metadata of a file: opening or
\* decoding an unreadable file raises inside the try block
image_date(file) ==
    except_Exception(IF ~file.readable THEN Raised
                     ELSE first_tag(file.tags, EXIF_DATE_TAGS))

\* main.py, extract_date_from_video on the metadata of a file: no parser
\* for an unreadable file, a textual creation_date is parsed
video_date(file) ==
    except_Exception(
        IF ~file.readable THEN None
        ELSE LET creation_date == file.tags["creation_date"]
             IN IF ~creation_date.present THEN None
                ELSE IF creation_date.native THEN creation_date.ts
                ELSE strptime(creation_date))

\* app/extract_date.py, _from_image: OSError of open / process_file is
\* caught, one tag is looked up, strptime is outside the try block
_from_image(file) ==
    IF ~file.readable THEN None
    ELSE LET tag == file.tags["EXIF DateTimeOriginal"]
         IN IF tag.present THEN strptime(tag) ELSE None

VARIABLES
    disk,             \* the scanned directory
    rename_button,    \* "normal" | "disabled"
    browse_button,    \* "normal" | "disabled"
    scanPc,           \* the scan task: "idle" | "submitted" | "running"
    listing,          \* what is left of sorted(directory.iterdir())
    date_counter,     \* self._date_counter
    treeview,         \* the FileEntry rows, item_id = index
    extracted,        \* per row, the timestamp the scan extracted (history)
    pending_renames,  \* self._pending_renames
    rename_progress,  \* the progress bar's value, [num, den]
    futures_list,     \* per job of the running batch, [pc, status]
    collected,        \* the jobs _update_results has consumed
    updPc,            \* _update_results: "idle" | "running"
    total,            \* total of the running batch
    started,          \* batches started since the last scan began (history)
    runs,             \* batches completed since the last scan began (history)
    prevClean,        \* at a scan's start: every job of the scan before ran
    failed,           \* jobs of the batch whose os rename failed (history)
    scans,            \* scans requested
    requests,         \* batches started
    extOps,           \* files created by other processes
    faults,           \* os-level rename failures
    request_log,      \* the last message a button handler logged
    extract_calls,    \* the paths an extractor was called on, this scan
    max_workers,      \* the worker threads of self._executor
    probe,            \* the metadata handed to the extractors on their own
    probed            \* what each extractor made of it

vars == <<disk, rename_button, browse_button, scanPc, listing, date_counter,
          treeview, extracted, pending_renames, rename_progress, futures_list,
          collected, updPc, total, started, runs, prevClean, failed, scans,
          requests, extOps, faults, request_log, extract_calls, max_workers,
          probe, probed>>

uiVars == <<rename_button, browse_button>>
scanVars == <<scanPc, listing, date_counter, treeview, extracted,
              pending_renames, extract_calls>>
execVars == <<futures_list, collected, updPc, total, failed>>
histVars == <<started, runs, prevClean>>
boundVars == <<scans, requests, extOps, faults>>
fixedVars == <<max_workers, probe, probed>>

\* ------------------------------------------------------------------ Init
Absent == [ext |-> "", date |-> None]

FileOptions ==
    {Absent, [ext |-> ".txt", date |-> None]}
    \cup {[ext |-> ".jpg", date |-> t] : t \in ImageDates}
    \cup {[ext |-> ".MKV", date |-> t] : t \in VideoDates}

\* what the directory holds besides the media files: a sub-directory and,
\* possibly, a file that already has a canonical name
SubDir == [name |-> PlainName(MaxFiles + 1, ".jpg"), kind |-> "dir", date |-> None]

Renamed0 == [name |-> CanonName(1, 0, ".jpg"), kind |-> "file", date |-> None]

\* the names another process may create
ExtNames == {CanonName(1, 0, ".MKV")}

zero == [num |-> 0, den |-> 1]

\* the least the default pool of ThreadPoolExecutor() has:
\* min(32, cpu_count + 4) threads on one cpu
default_max_workers == 5

NoProbe == [kind |-> "none", readable |-> FALSE, tags |-> <<>>]

NotRun == <<-2>>

\* the application after App.__init__, on a directory drawn from `options`
\* and `pres`, with a pool of a size in `workers`
AppInit(options, pres, workers) ==
    /\ \E f \in [1..MaxFiles -> options], pre \in pres :
         disk = {SubDir} \cup pre \cup
                {[name |-> PlainName(i, f[i].ext), kind |-> "file",
                           date |-> f[i].date] : i \in {j \in 1..MaxFiles : f[j] # Absent}}
    /\ max_workers \in workers
    /\ request_log = ""
    /\ extract_calls = {}
    /\ rename_button = "normal"
    /\ browse_button = "normal"
    /\ scanPc = "idle"
    /\ listing = <<>>
    /\ date_counter = [t \in Timestamps |-> 0]
    /\ treeview = <<>>
    /\ extracted = <<>>
    /\ pending_renames = <<>>
    /\ rename_progress = zero
    /\ futures_list = <<>>
    /\ collected = {}
    /\ updPc = "idle"
    /\ total = 0
    /\ started = 0
    /\ runs = 0
    /\ prevClean = FALSE
    /\ failed = {}
    /\ scans = 0
    /\ requests = 0
    /\ extOps = 0
    /\ faults = 0

Init ==
    /\ AppInit(FileOptions, SUBSET {Renamed0}, {default_max_workers})
    /\ probe = NoProbe
    /\ probed = [main |-> NotRun, app |-> NotRun]


\* ------------------------------------------------------------- the rows
FileEntry(original_name, proposed_name, status) ==
    [original_name |-> original_name, proposed_name |-> proposed_name,
     status |-> status]

RenameJob(item_id, original_name, proposed_name) ==
    [item_id |-> item_id, original_name |-> original_name,
     proposed_name |-> proposed_name]

\* ------------------------------------------------------------ UI locking
\* a lock that forgets the browse button
lock_rename_only == rename_button' = "disabled" /\ browse_button' = browse_button

\* App._lock: both triggers are disabled
_lock == rename_button' = "disabled" /\ browse_button' = "disabled"

\* App._unlock
_unlock == rename_button' = "normal" /\ browse_button' = "normal"

\* ---------------------------------------------------------- os.rename
\* a rename that leaves the source behind (a copy)
os_rename_keeps_source(d, src, dst, overwrites) ==
    IF ~exists(d, src) THEN [ok |-> FALSE, disk |-> d]
    ELSE IF exists(d, dst) /\ (~overwrites \/ Entry(d, dst).kind = "dir")
    THEN [ok |-> FALSE, disk |-> d]
    ELSE [ok |-> TRUE,
          disk |-> {e \in d : e.name # dst} \cup {[Entry(d, src) EXCEPT !.name = dst]}]

\* Path.rename(src, dst) on directory d.  A missing source fails.  A
\* destination that exists is replaced silently where the platform's rename
\* overwrites (POSIX, a regular file) and fails where it does not (Windows,
\* or a directory), so `overwrites` is an input of the step.
os_rename(d, src, dst, overwrites) ==
    IF ~exists(d, src) THEN [ok |-> FALSE, disk |-> d]
    ELSE IF exists(d, dst) /\ (~overwrites \/ Entry(d, dst).kind = "dir")
    THEN [ok |-> FALSE, disk |-> d]
    ELSE [ok |-> TRUE,
          disk |-> {e \in d : e.name # src /\ e.name # dst}
                   \cup {[Entry(d, src) EXCEPT !.name = dst]}]

\* ------------------------------------------------------------------ scan
\* the loop of App._create_renamed_filename: the counter of the timestamp is
\* read and incremented until <formatted>_<count><suffix> does not exist
RECURSIVE create_loop(_, _, _, _)
create_loop(d, counter, path, timestamp) ==
    LET count == counter[timestamp]
        bumped == [counter EXCEPT ![timestamp] = count + 1]
        new_name == CanonName(strftime(timestamp), count, suffix(path))
    IN IF ~exists(d, new_name)
       THEN [new_name |-> new_name, date_counter |-> bumped]
       ELSE create_loop(d, bumped, path, timestamp)

\* the counter incremented before it is read: numbering starts at 1
RECURSIVE create_loop_from_one(_, _, _, _)
create_loop_from_one(d, counter, path, timestamp) ==
    LET bumped == [counter EXCEPT ![timestamp] = counter[timestamp] + 1]
        count == bumped[timestamp]
        new_name == CanonName(strftime(timestamp), count, suffix(path))
    IN IF ~exists(d, new_name)
       THEN [new_name |-> new_name, date_counter |-> bumped]
       ELSE create_loop_from_one(d, bumped, path, timestamp)

\* the first candidate taken without looking at the directory
create_unchecked(d, counter, path, timestamp) ==
    [new_name |-> CanonName(strftime(timestamp), counter[timestamp], suffix(path)),
     date_counter |-> [counter EXCEPT ![timestamp] = counter[timestamp] + 1]]

\* App._create_renamed_filename: the new name and the counter it leaves
_create_renamed_filename(d, counter, path, timestamp) ==
    create_loop(d, counter, path, timestamp)

\* the date the scan extracts for a path, by the type of its extension;
\* "skip" for an unsupported type
extract_date(d, path) ==
    IF lower(suffix(path)) \in IMAGE_FILE_EXTENSIONS
    THEN [skip |-> FALSE, date |-> extract_date_from_image(d, path)]
    ELSE IF lower(suffix(path)) \in VIDEO_FILE_EXTENSIONS
    THEN [skip |-> FALSE, date |-> extract_date_from_video(d, path)]
    ELSE [skip |-> TRUE, date |-> None]

\* a clear() that is forgotten: the jobs of the scan before stay
pending_renames_kept(pending) == pending

\* _scan_directory: self._pending_renames.clear()
pending_renames_clear(pending) == <<>>

\* the comparison turned round
status_inverted(new_name, path) == IF new_name = path THEN READY ELSE NO_CHANGE

\* _scan_directory: the status of an entry that has a proposed name
status_of(new_name, path) == IF new_name # path THEN READY ELSE NO_CHANGE

\* a scan that renames as soon as it has the name
rename_while_scanning(d, path, new_name) == os_rename(d, path, new_name, TRUE).disk

\* _scan_directory, the end of an iteration: the proposal is shown and
\* queued, the directory is left as it is
plan_only(d, path, new_name) == d

\* the directory is chosen in the dialog: the UI is locked and the scan is
\* submitted to the pool
Browse ==
    /\ browse_button = "normal"
    /\ scans < MaxCycles
    /\ _lock
    /\ scanPc' = "submitted"
    /\ scans' = scans + 1
    /\ request_log' = "Directory selected"
    /\ UNCHANGED <<disk, listing, date_counter, treeview, extracted,
                   pending_renames, extract_calls, rename_progress, execVars,
                   histVars, requests, extOps, faults, fixedVars>>

\* App._scan_directory up to the loop: the plan state is cleared and the
\* directory is listed
ScanBegin ==
    /\ scanPc = "submitted"
    /\ scanPc' = "running"
    /\ treeview' = <<>>
    /\ extracted' = <<>>
    /\ rename_progress' = zero
    /\ pending_renames' = pending_renames_clear(pending_renames)
    /\ date_counter' = [t \in Timestamps |-> 0]
    /\ listing' = sorted(iterdir(disk))
    /\ started' = 0
    /\ runs' = 0
    /\ prevClean' = (scans >= 2 /\ (pending_renames = <<>> \/ runs >= 1))
    /\ extract_calls' = {}
    /\ UNCHANGED <<disk, uiVars, execVars, boundVars, request_log, fixedVars>>

\* one iteration of the loop of App._scan_directory
ScanFile ==
    /\ scanPc = "running"
    /\ listing # <<>>
    /\ listing' = Tail(listing)
    /\ LET path == Head(listing)
           got == extract_date(disk, path)
       IN IF ~is_file(disk, path) \/ RENAMED_REGEX(path) \/ got.skip
          THEN UNCHANGED <<disk, date_counter, treeview, extracted,
                           pending_renames, extract_calls>>
          ELSE IF got.date = None
          THEN /\ extract_calls' = extract_calls \cup {path}
               /\ treeview' = Append(treeview, FileEntry(path, EmptyName, NO_DATE_FOUND))
               /\ extracted' = Append(extracted, None)
               /\ UNCHANGED <<disk, date_counter, pending_renames>>
          ELSE LET made == _create_renamed_filename(disk, date_counter, path, got.date)
                   new_name == made.new_name
                   status == status_of(new_name, path)
                   item_id == Len(treeview) + 1
               IN /\ extract_calls' = extract_calls \cup {path}
                  /\ disk' = plan_only(disk, path, new_name)
                  /\ date_counter' = made.date_counter
                  /\ treeview' = Append(treeview, FileEntry(path, new_name, status))
                  /\ extracted' = Append(extracted, got.date)
                  /\ pending_renames' =
                        IF new_name # path
                        THEN Append(pending_renames, RenameJob(item_id, path, new_name))
                        ELSE pending_renames
    /\ UNCHANGED <<uiVars, scanPc, rename_progress, execVars, histVars,
                   boundVars, request_log, fixedVars>>

\* the scan returns and its done callback unlocks the UI
ScanEnd ==
    /\ scanPc = "running"
    /\ listing = <<>>
    /\ scanPc' = "idle"
    /\ _unlock
    /\ UNCHANGED <<disk, listing, date_counter, treeview, extracted,
                   pending_renames, extract_calls, rename_progress, execVars,
                   histVars, boundVars, request_log, fixedVars>>


\* ------------------------------------------------------------- execution
\* a job that does not test its destination
dst_never_exists(d, job) == FALSE

\* _rename_job, the test before the rename: dst.exists()
dst_exists(d, job) == exists(d, job.proposed_name)

\* an exception that is not turned into a status: the row stays Ready
status_left_ready == READY

\* _rename_job, the status of a job whose rename raised
status_on_exception == ERROR

\* enumerate() without start=1
progress_from_zero(index, n) == [num |-> index - 1, den |-> n]

\* _update_results: the fraction shown after the index-th future
progress_value(index, n) == [num |-> index, den |-> n]

\* _start_renaming: `if not self._pending_renames`
nothing_pending(pending) == pending = <<>>

\* a collector that is submitted before the jobs
collector_submitted_first(n) == <<0>> \o [k \in 1..n |-> k]

\* _start_renaming: the order in which the tasks of a batch are submitted
\* to the pool, jobs 1..n and then the collector _update_results (task 0)
submission_order(n) == [k \in 1..n |-> k] \o <<0>>

\* ThreadPoolExecutor: the tasks are taken from the queue in the order of
\* submission, each by a thread that is idle, and a thread is held until its
\* task returns.  Task t can run when t and the unfinished tasks submitted
\* before it fit in the pool.
has_worker(t) ==
    IF Len(futures_list) < max_workers THEN TRUE
    ELSE LET order == submission_order(Len(futures_list))
             pos == CHOOSE k \in DOMAIN order : order[k] = t
             ahead == {order[k] : k \in 1..pos}
             unfinished == {u \in ahead : u = 0 \/ futures_list[u].pc # "done"}
         IN Cardinality(unfinished) <= max_workers

\* App._start_renaming up to the submissions
_start_renaming ==
    /\ rename_button = "normal"
    /\ IF nothing_pending(pending_renames)
       THEN /\ request_log' = "No files scheduled for renaming"
            /\ UNCHANGED <<uiVars, rename_progress, execVars, started, requests>>
       ELSE /\ requests < MaxCycles
            /\ request_log' = "Starting rename"
            /\ requests' = requests + 1
            /\ total' = Len(pending_renames)
            /\ _lock
            /\ rename_progress' = zero
            /\ futures_list' = [i \in 1..Len(pending_renames) |->
                                  [job |-> pending_renames[i], pc |-> "queued",
                                   status |-> ""]]
            /\ collected' = {}
            /\ failed' = {}
            /\ updPc' = "running"
            /\ started' = started + 1
    /\ UNCHANGED <<disk, scanVars, runs, prevClean, scans, extOps, faults,
                   fixedVars>>

\* _rename_job on a pool thread, first step: the destination is tested
JobCheck(i) ==
    /\ futures_list[i].pc = "queued"
    /\ has_worker(i)
    /\ futures_list' =
          [futures_list EXCEPT ![i] =
             IF dst_exists(disk, futures_list[i].job)
             THEN [@ EXCEPT !.pc = "done", !.status = CONFLICT]
             ELSE [@ EXCEPT !.pc = "checked"]]
    /\ UNCHANGED <<disk, uiVars, scanVars, rename_progress, collected, updPc,
                   total, failed, histVars, boundVars, request_log, fixedVars>>

\* _rename_job, second step: src.rename(dst); the operating system may
\* refuse it (permissions, a busy file)
JobRename(i) ==
    /\ futures_list[i].pc = "checked"
    /\ \E refused \in {r \in BOOLEAN : r => extOps + faults < MaxEnv},
          overwrites \in BOOLEAN :
         LET job == futures_list[i].job
             res == os_rename(disk, job.original_name, job.proposed_name, overwrites)
         IN IF refused \/ ~res.ok
            THEN /\ futures_list' = [futures_list EXCEPT
                                       ![i] = [@ EXCEPT !.pc = "done",
                                                        !.status = status_on_exception]]
                 /\ failed' = failed \cup {i}
                 /\ faults' = IF refused THEN faults + 1 ELSE faults
                 /\ disk' = disk
            ELSE /\ futures_list' = [futures_list EXCEPT
                                       ![i] = [@ EXCEPT !.pc = "done",
                                                        !.status = RENAMED]]
                 /\ disk' = res.disk
                 /\ UNCHANGED <<failed, faults>>
    /\ UNCHANGED <<uiVars, scanVars, rename_progress, collected, updPc, total,
                   histVars, scans, requests, extOps, request_log, fixedVars>>

\* _update_results: as_completed yields a finished future; its row and the
\* progress bar are updated
UpdateCollect(i) ==
    /\ updPc = "running"
    /\ i \notin collected
    /\ futures_list[i].pc = "done"
    /\ has_worker(0)
    /\ LET job == futures_list[i].job
           index == Cardinality(collected) + 1
       IN /\ job.item_id \in DOMAIN treeview
          /\ treeview' = [treeview EXCEPT ![job.item_id] =
                            FileEntry(job.original_name, job.proposed_name,
                                      futures_list[i].status)]
          /\ rename_progress' = progress_value(index, total)
    /\ collected' = collected \cup {i}
    /\ UNCHANGED <<disk, uiVars, scanPc, listing, date_counter, extracted,
                   pending_renames, extract_calls, futures_list, updPc, total,
                   failed, histVars, boundVars, request_log, fixedVars>>

\* _update_results after the loop: the bar is filled and the UI unlocked
UpdateFinish ==
    /\ updPc = "running"
    /\ collected = DOMAIN futures_list
    /\ has_worker(0)
    /\ rename_progress' = [num |-> 1, den |-> 1]
    /\ _unlock
    /\ updPc' = "idle"
    /\ runs' = runs + 1
    /\ UNCHANGED <<disk, scanVars, futures_list, collected, total, failed,
                   started, prevClean, boundVars, request_log, fixedVars>>

\* another process creates a file in the directory
ExtCreate(name) ==
    /\ extOps + faults < MaxEnv
    /\ ~exists(disk, name)
    /\ disk' = disk \cup {[name |-> name, kind |-> "file", date |-> None]}
    /\ extOps' = extOps + 1
    /\ UNCHANGED <<uiVars, scanVars, rename_progress, execVars, histVars,
                   scans, requests, faults, request_log, fixedVars>>

Next ==
    \/ Browse
    \/ ScanBegin
    \/ ScanFile
    \/ ScanEnd
    \/ _start_renaming
    \/ \E i \in DOMAIN futures_list : JobCheck(i)
    \/ \E i \in DOMAIN futures_list : JobRename(i)
    \/ \E i \in DOMAIN futures_list : UpdateCollect(i)
    \/ UpdateFinish
    \/ \E name \in ExtNames : ExtCreate(name)

Spec == Init /\ [][Next]_vars

Jobs == DOMAIN futures_list

\* ------------------------------------------------- pools of every size
\* The application on a pool of 1 .. MaxFiles + 1 threads (a batch has at
\* most MaxFiles jobs and one collector, so a larger pool adds nothing),
\* with the threads of the pool scheduled fairly: a task of the batch that
\* can take a step is not left waiting for ever.  The directories are those
\* whose files all get a job: images and videos with a date.
PoolOptions ==
    {Absent, [ext |-> ".jpg", date |-> <<1, 0>>], [ext |-> ".MKV", date |-> <<1, 5>>]}

PoolInit ==
    /\ AppInit(PoolOptions, {{}}, 1..(MaxFiles + 1))
    /\ probe = NoProbe
    /\ probed = [main |-> NotRun, app |-> NotRun]

PoolStep ==
    \/ \E i \in Jobs : JobCheck(i) \/ JobRename(i) \/ UpdateCollect(i)
    \/ UpdateFinish

PoolSpec == PoolInit /\ [][Next]_vars /\ WF_vars(PoolStep)

\* ------------------------------------------------ the extractors alone
\* The extractors as functions of a file's metadata: those of main.py,
\* which the scan above calls, and _from_image of app/extract_date.py.
appVars == <<disk, rename_button, browse_button, scanPc, listing, date_counter,
             treeview, extracted, pending_renames, rename_progress,
             futures_list, collected, updPc, total, started, runs, prevClean,
             failed, scans, requests, extOps, faults, request_log,
             extract_calls, max_workers>>

ExtractInit ==
    /\ AppInit({Absent}, {{}}, {default_max_workers})
    /\ probe \in Images \cup Videos
    /\ probed = [main |-> NotRun, app |-> NotRun]

\* main.py: extract_date_from_image or extract_date_from_video is called
CallMain ==
    /\ probed.main = NotRun
    /\ probed' = [probed EXCEPT !.main = IF probe.kind = "image"
                                         THEN image_date(probe)
                                         ELSE video_date(probe)]
    /\ UNCHANGED <<appVars, probe>>

\* app/extract_date.py: _from_image is called
CallFromImage ==
    /\ probe.kind = "image"
    /\ probed.app = NotRun
    /\ probed' = [probed EXCEPT !.app = _from_image(probe)]
    /\ UNCHANGED <<appVars, probe>>

ExtractNext == CallMain \/ CallFromImage

ExtractSpec == ExtractInit /\ [][ExtractNext]_vars


\* ---------------------------------------------------------------- claims

Rows == DOMAIN treeview

Terminal == {RENAMED, CONFLICT, ERROR}

ScanActive == scanPc # "idle"

ExecActive == updPc = "running"

\* the rows of the scan that carry timestamp t
RowsOf(t) == {i \in Rows : extracted[i] = t}

\* job i is the only job of its batch with its destination
UniqueDst(i) ==
    \A k \in Jobs \ {i} :
        futures_list[k].job.proposed_name # futures_list[i].job.proposed_name

\* a step of the scan that adds a row with a proposed name
AddsRow == Len(treeview') = Len(treeview) + 1 /\ extracted'[Len(treeview')] # None

NewRow == treeview'[Len(treeview')]

\* C1: within one scan no two rename jobs have the same proposed
\* destination name, whatever the timestamps and extensions of the files.
C1_DistinctDestinations ==
    \A i, j \in DOMAIN pending_renames :
        i # j => pending_renames[i].proposed_name # pending_renames[j].proposed_name

\* C2 as stated: the files of one scan that share a capture timestamp get
\* the suffixes 0, 1, ..., k-1 in scan order.
C2_SuffixesFromZero ==
    \A i \in Rows :
        extracted[i] # None =>
            treeview[i].proposed_name.n =
                Cardinality({j \in RowsOf(extracted[i]) : j < i})

\* C2 amended, the state part: the rows of one timestamp carry strictly
\* increasing suffixes in scan order, the rows are in the order of their
\* original names, and the counter of a timestamp is one more than its last
\* suffix (0 when it has no row).
C2_Increasing ==
    /\ \A i, j \in Rows :
          i < j => NameLess(treeview[i].original_name, treeview[j].original_name)
    /\ \A t \in Timestamps :
          /\ \A i, j \in RowsOf(t) :
                i < j => treeview[i].proposed_name.n < treeview[j].proposed_name.n
          /\ \A i \in RowsOf(t) : treeview[i].proposed_name.n < date_counter[t]
          /\ RowsOf(t) = {} => date_counter[t] = 0
          /\ RowsOf(t) # {} =>
                \E i \in RowsOf(t) : date_counter[t] = treeview[i].proposed_name.n + 1

\* C2 amended, the step part: a new row takes the smallest suffix not below
\* the counter of its timestamp whose name <formatted>_<n><ext> is not on
\* disk, so a suffix is passed over only for a name that exists on disk.
C2_SkipsOnlyExisting ==
    AddsRow =>
        LET t == extracted'[Len(treeview')]
            e == suffix(NewRow.original_name)
            n == NewRow.proposed_name.n
        IN /\ NewRow.proposed_name = CanonName(strftime(t), n, e)
           /\ n >= date_counter[t]
           /\ \A m \in date_counter[t]..(n - 1) :
                 exists(disk, CanonName(strftime(t), m, e))
           /\ date_counter'[t] = n + 1

\* C2 amended: for the k files of one scan that yield the same capture
\* timestamp T the suffixes are pairwise distinct and strictly increasing in
\* lexicographic scan order; each is the smallest n, not below the previous
\* one plus one (0 for the first), for which <formatted>_<n><ext> does not
\* exist on disk.  They are 0..k-1 when none of these names exists on disk.
C2_SuffixesSkipExisting == []C2_Increasing /\ [][C2_SkipsOnlyExisting]_vars

\* C2 witness: two rows of one timestamp, the first of which had to pass
\* over suffix 0 because that name is a file of the directory.
C2_Witness ==
    \E i, j \in Rows :
        /\ i < j
        /\ extracted[i] # None
        /\ extracted[i] = extracted[j]
        /\ treeview[i].proposed_name.n = 1
        /\ treeview[j].proposed_name.n = 2
        /\ exists(disk, [treeview[i].proposed_name EXCEPT !.n = 0])
        /\ started = 0

\* the name of a row just added is not a name of the directory
C3_NewNameNotOnDisk == AddsRow => ~exists(disk, NewRow.proposed_name)

\* C3: a scan never proposes a name that exists in the directory when the
\* name is chosen; where <formatted>_<n><ext> exists it moves to a larger n.
C3_NeverProposesExisting == [][C3_NewNameNotOnDisk]_vars

\* C3 witness: the only row of its timestamp has suffix 1, the name with
\* suffix 0 being a file on disk at plan time.
C3_Witness ==
    \E i \in Rows :
        /\ extracted[i] # None
        /\ RowsOf(extracted[i]) = {i}
        /\ treeview[i].proposed_name.n = 1
        /\ treeview[i].status = READY
        /\ exists(disk, [treeview[i].proposed_name EXCEPT !.n = 0])
        /\ started = 0

\* C4: scanning a directory, executing all Ready renames and scanning the
\* result again yields no Ready entry and no rename job (no other process
\* touched the directory and the operating system refused nothing).
C4_RescanProposesNothing ==
    (scanPc = "idle" /\ scans >= 2 /\ prevClean /\ extOps = 0 /\ faults = 0) =>
        /\ pending_renames = <<>>
        /\ \A i \in Rows : treeview[i].status # READY

\* the step of a job that finds its destination on disk ends the job with
\* Conflict and leaves the directory as it was
C5_ConflictStep ==
    \A i \in Jobs :
        (/\ futures_list[i].pc = "queued"
         /\ i \in DOMAIN futures_list'
         /\ futures_list'[i].pc # "queued"
         /\ exists(disk, futures_list[i].job.proposed_name)) =>
            /\ futures_list'[i].pc = "done"
            /\ futures_list'[i].status = CONFLICT
            /\ disk' = disk

\* once collected, the row of a job shows the job's status (until the next
\* scan clears the rows)
C5_RowShowsStatus ==
    \A i \in collected :
        started >= 1 =>
        treeview[futures_list[i].job.item_id].status = futures_list[i].status

\* C5: a job whose destination exists on disk when the job runs its test
\* resolves to Conflict; no rename is performed, the directory is unchanged
\* by the job and the source keeps its original name.
C5_ExistingDestinationConflicts == []C5_RowShowsStatus /\ [][C5_ConflictStep]_vars

\* C5 witness: another process created the destination after the plan; the
\* job is Conflict and its source is still there under its original name.
C5_Witness ==
    \E i \in collected :
        /\ extOps = 1
        /\ started = 1
        /\ futures_list[i].status = CONFLICT
        /\ treeview[futures_list[i].job.item_id].status = CONFLICT
        /\ is_file(disk, futures_list[i].job.original_name)
        /\ UniqueDst(i)


\* C6: in a batch of Ready jobs run concurrently, with no other process
\* touching the directory and no refusal by the operating system, any two
\* jobs whose destinations no other job shares both resolve to Renamed,
\* and afterwards the directory holds both destinations and neither
\* original name.
C6_DistinctJobsBothRenamed ==
    (updPc = "idle" /\ started = 1 /\ runs = 1 /\ extOps = 0 /\ faults = 0) =>
        \A i, j \in Jobs :
            (i # j /\ UniqueDst(i) /\ UniqueDst(j)) =>
                \A k \in {i, j} :
                    LET job == futures_list[k].job
                    IN /\ futures_list[k].status = RENAMED
                       /\ treeview[job.item_id].status = RENAMED
                       /\ is_file(disk, job.proposed_name)
                       /\ ~exists(disk, job.original_name)

\* C6 witness: a finished batch of two jobs with different destinations.
C6_Witness ==
    /\ updPc = "idle" /\ started = 1 /\ runs = 1 /\ extOps = 0 /\ faults = 0
    /\ Cardinality(Jobs) = 2
    /\ \A i \in Jobs : UniqueDst(i) /\ futures_list[i].status = RENAMED
    /\ \A i \in Rows : treeview[i].status = RENAMED

\* a row that has a terminal status keeps it while the row exists
C7_TerminalStep ==
    \A i \in Rows :
        (treeview[i].status \in Terminal /\ i \in DOMAIN treeview') =>
            treeview'[i].status = treeview[i].status

\* C7: without a new scan a job runs at most once, and a row that reached
\* Renamed, Conflict or Error keeps its status under later rename requests.
C7_TerminalStatusIsFinal == [][C7_TerminalStep]_vars

\* the fraction a / b is at most c / d
FracLeq(x, y) == x.num * y.den <= y.num * x.den

\* C8, the values: the fraction lies in [0,1]; during a batch it is k/n after
\* the k-th collected completion (0 before the first) with n the number of
\* jobs; after the batch it is exactly 1.
C8_ProgressValue ==
    /\ rename_progress.den >= 1
    /\ 0 <= rename_progress.num
    /\ rename_progress.num <= rename_progress.den
    /\ ExecActive =>
          /\ total = Len(futures_list)
          /\ rename_progress = IF collected = {} THEN zero
                               ELSE [num |-> Cardinality(collected), den |-> total]
    /\ (updPc = "idle" /\ runs >= 1 /\ scanPc # "running") =>
          rename_progress.num = rename_progress.den

\* C8, the steps: within a batch the fraction never decreases, and every
\* collected completion raises it by 1/n.
C8_ProgressStep ==
    ExecActive =>
        /\ FracLeq(rename_progress, rename_progress')
        /\ collected' # collected =>
              rename_progress' = [num |-> Cardinality(collected) + 1, den |-> total]

\* C8: the progress fraction is k/n after the k-th completion, stays in
\* [0,1], never decreases during a batch and is 1 when all jobs resolved.
C8_ProgressCountsCompletions == []C8_ProgressValue /\ [][C8_ProgressStep]_vars

\* C8 witness: half-way through a batch of two whose first completion was
\* not a success.
C8_Witness ==
    /\ ExecActive
    /\ total = 2
    /\ rename_progress = [num |-> 1, den |-> 2]
    /\ \E i \in collected : futures_list[i].status \in {CONFLICT, ERROR}

\* a step of the running batch
ExecStep ==
    \/ \E i \in Jobs : JobCheck(i) \/ JobRename(i) \/ UpdateCollect(i)
    \/ UpdateFinish

\* C9: no failure aborts the batch.  While a batch runs some step of it can
\* be taken; when it has ended every job has one of Renamed, Conflict and
\* Error, shown in its row; a refused rename gives Error to that job and to
\* no other, and the other jobs still run: in a batch of Ready jobs in a
\* directory no other process touches, every job that was not refused and
\* shares its destination with no other job is Renamed.
C9_FailureIsPerJob ==
    /\ ExecActive => ENABLED ExecStep
    /\ \A i \in Jobs :
          futures_list[i].pc = "done" =>
              /\ futures_list[i].status \in Terminal
              /\ (futures_list[i].status = ERROR) <=> (i \in failed)
    /\ (updPc = "idle" /\ runs >= 1) =>
          \A i \in Jobs :
              /\ futures_list[i].pc = "done"
              /\ treeview[futures_list[i].job.item_id].status = futures_list[i].status
              /\ (started = 1 /\ extOps = 0 /\ i \notin failed /\ UniqueDst(i)) =>
                    /\ futures_list[i].status = RENAMED
                    /\ is_file(disk, futures_list[i].job.proposed_name)

\* C9 witness: a finished batch in which the operating system refused one
\* rename and the other job was renamed.
C9_Witness ==
    /\ updPc = "idle" /\ runs = 1 /\ started = 1 /\ faults = 1
    /\ \E i, j \in Jobs :
          /\ i \in failed
          /\ treeview[futures_list[i].job.item_id].status = ERROR
          /\ is_file(disk, futures_list[i].job.original_name)
          /\ j \notin failed
          /\ treeview[futures_list[j].job.item_id].status = RENAMED

\* C10, the states: a scan and a batch are never in progress together;
\* while either is, both triggers are disabled; and the UI is unlocked only
\* when no job of the batch is still unresolved.
C10_BusyState ==
    /\ ~(ScanActive /\ ExecActive)
    /\ (ScanActive \/ ExecActive) =>
          (rename_button = "disabled" /\ browse_button = "disabled")
    /\ ~ExecActive => \A i \in Jobs : futures_list[i].pc = "done"
    /\ ScanActive => \A i \in Jobs : futures_list[i].pc = "done"

\* C10, the steps: while a scan or a batch is in progress no scan is
\* requested and no batch is started.
C10_BusyStep ==
    (ScanActive \/ ExecActive) => (scans' = scans /\ requests' = requests)

\* C10: scanning and executing are mutually exclusive; the busy state is set
\* before the work is submitted and cleared only after it has completed.
C10_ScanAndExecuteExclusive == []C10_BusyState /\ [][C10_BusyStep]_vars

\* C10 witness: a batch in flight, a job between its test and its rename,
\* with both triggers disabled, after a scan has completed.
C10_Witness ==
    /\ ExecActive
    /\ scanPc = "idle"
    /\ scans >= 1
    /\ \E i \in Jobs : futures_list[i].pc = "checked"
    /\ rename_button = "disabled"
    /\ browse_button = "disabled"

\* a step in which the handler of the rename button ran
RenameRequested ==
    /\ request_log' \in {"No files scheduled for renaming", "Starting rename"}
    /\ request_log' # request_log \/ requests' # requests

\* no entry of the plan is Ready
NoReadyJob == \A i \in Rows : treeview[i].status # READY

\* a rename request made when no entry is Ready changes nothing but the log
C11_NoOpStep ==
    (NoReadyJob /\ RenameRequested) =>
        /\ request_log' = "No files scheduled for renaming"
        /\ UNCHANGED <<futures_list, collected, updPc, total, requests, started>>
        /\ UNCHANGED <<rename_button, browse_button>>
        /\ UNCHANGED <<treeview, pending_renames, rename_progress, disk>>

\* C11: a rename request issued when no Ready job exists is a no-op: no job
\* is submitted, the busy state is not entered, and the plan entries, the
\* progress value and the directory are left unchanged.
C11_NoReadyJobIsNoOp == [][C11_NoOpStep]_vars

\* a name of the canonical pattern YYYY-MM-DD_HH-MM-SS[_N]EXT
Canonical(name) == name.stem = 0 /\ name.date >= 0

\* a name whose lower-cased extension is in one of the two allow-lists
Supported(name) ==
    lower(name.ext) \in IMAGE_FILE_EXTENSIONS \cup VIDEO_FILE_EXTENSIONS

\* C12, the states: every entry, and every call of an extractor, is for a
\* name that is not canonical and has a supported extension, and the
\* extractors were called on the files of the entries and on no other.
C12_PlanState ==
    /\ \A i \in Rows :
          ~Canonical(treeview[i].original_name) /\ Supported(treeview[i].original_name)
    /\ \A name \in extract_calls : ~Canonical(name) /\ Supported(name)
    /\ extract_calls = {treeview[i].original_name : i \in Rows}

\* C12, the steps: the iteration of the scan on a path that is no regular
\* file, is canonical or is unsupported adds no entry, no job and no
\* extractor call; on any other path it calls an extractor once and adds
\* the entry of that path.
C12_PlanStep ==
    (scanPc = "running" /\ listing # <<>> /\ listing' = Tail(listing)) =>
        LET path == Head(listing)
        IN IF ~is_file(disk, path) \/ Canonical(path) \/ ~Supported(path)
           THEN UNCHANGED <<treeview, pending_renames, extract_calls, date_counter>>
           ELSE /\ extract_calls' = extract_calls \cup {path}
                /\ path \notin extract_calls
                /\ Len(treeview') = Len(treeview) + 1
                /\ treeview'[Len(treeview')].original_name = path

\* C12: the plan has an entry only for a regular file whose name is not
\* canonical and whose lower-cased extension is supported; for canonical
\* names and for unsupported extensions there is no entry and no extractor
\* call, whatever timestamp the file holds.
C12_OnlyEligibleFilesPlanned == []C12_PlanState /\ [][C12_PlanStep]_vars

\* C12 witness: a completed scan of a directory that holds a canonically
\* named file with a timestamp in its metadata, a file of an unsupported
\* type and a sub-directory; none of them was handed to an extractor.
C12_Witness ==
    /\ scanPc = "idle" /\ scans >= 1 /\ listing = <<>>
    /\ \E e \in disk :
          e.kind = "file" /\ Canonical(e.name) /\ e.date # None
          /\ e.name \notin extract_calls
    /\ \E e \in disk : e.kind = "file" /\ e.name.ext = ".txt"
    /\ \E e \in disk : e.kind = "dir"
    /\ started = 0

\* the results the extractors have returned for the probed file
Results == {probed.main, probed.app} \ {NotRun}

\* the tag an image's date is to be taken from: the first of
\* EXIF_DATE_TAGS that is present, NoValue when none is
Preferred(file) ==
    IF file.tags["EXIF DateTimeOriginal"].present
    THEN file.tags["EXIF DateTimeOriginal"]
    ELSE file.tags["Image DateTime"]

\* the file cannot be read, or the tag that holds its date is absent or
\* holds a text that is not in the date format
ExtractionFails(file) ==
    \/ ~file.readable
    \/ file.kind = "image" /\ ~Preferred(file).valid
    \/ file.kind = "video" /\ ~file.tags["creation_date"].valid

\* C13: no extraction failure leaves an extractor as an exception: for a
\* file that is unreadable, has no date tag or has a date text that does not
\* match the format, the extractor returns none (and the scan, which calls
\* it, goes on with NoDateFound for that file).
C13_FailureGivesNone ==
    ExtractionFails(probe) => \A r \in Results : r = None

\* C18: for a readable image whose date tags are well formed the result is
\* the value of EXIF DateTimeOriginal when that tag is present, else the
\* value of Image DateTime when that tag is present, else none.
C18_TagPriority ==
    (probe.kind = "image" /\ probe.readable
     /\ \A n \in DOMAIN probe.tags : probe.tags[n] # BadText) =>
        \A r \in Results : r = Preferred(probe).ts

\* the scan makes an entry for this name of the directory
Eligible(name) == is_file(disk, name) /\ ~Canonical(name) /\ Supported(name)

\* the original names of the entries, in the order of their insertion
EntryNames == [i \in Rows |-> treeview[i].original_name]

\* C14, the states: the entries are in strictly increasing order of their
\* original names; and while the directory is as it was when the scan
\* began, the names of the entries followed by the eligible names still to
\* be visited are the eligible names of the directory in increasing order,
\* which is one sequence for one directory state.
C14_InOrder ==
    /\ \A i, j \in Rows : i < j => NameLess(EntryNames[i], EntryNames[j])
    /\ (scans >= 1 /\ scanPc # "submitted" /\ started = 0 /\ extOps = 0) =>
          LET names == EntryNames \o SelectSeq(listing, Eligible)
          IN /\ \A i, j \in DOMAIN names : i < j => NameLess(names[i], names[j])
             /\ {names[i] : i \in DOMAIN names} = {n \in iterdir(disk) : Eligible(n)}

\* C14, the steps: the entries change by the clear of a new scan, by one
\* entry appended for the path the scan is at, or by the status of an entry
\* that stays where it is.
C14_OneByOne ==
    \/ treeview' = <<>>
    \/ /\ scanPc = "running" /\ listing # <<>>
       /\ Len(treeview') = Len(treeview) + 1
       /\ SubSeq(treeview', 1, Len(treeview)) = treeview
       /\ treeview'[Len(treeview')].original_name = Head(listing)
    \/ /\ Len(treeview') = Len(treeview)
       /\ \A i \in Rows : treeview'[i].original_name = treeview[i].original_name

\* C14: the entries of a scan are added one at a time in the lexicographic
\* order of their original names, in the same order for every scan of one
\* directory state.
C14_EntriesInNameOrder == []C14_InOrder /\ [][C14_OneByOne]_vars

\* C14 witness: a completed scan that made two entries, one of them
\* without a date, of a directory nothing else touched.
C14_Witness ==
    /\ scanPc = "idle" /\ scans >= 1 /\ started = 0 /\ extOps = 0
    /\ Len(treeview) = 2
    /\ treeview[1].status = NO_DATE_FOUND
    /\ treeview[2].status = READY
    /\ NameLess(treeview[1].original_name, treeview[2].original_name)

\* the step of a job of the running batch that renames its file
RenameStep ==
    \E i \in Jobs :
        /\ futures_list[i].pc = "checked"
        /\ futures_list'[i].pc = "done"
        /\ futures_list'[i].status = RENAMED
        /\ ~exists(disk', futures_list[i].job.original_name)
        /\ exists(disk', futures_list[i].job.proposed_name)

\* the steps: from the request of a scan to its end the program leaves the
\* directory as it is (only another process changes it), and the program
\* changes the directory only by the rename of a job of a batch that a
\* rename request started, while no scan is in progress.
C15_DiskStep ==
    /\ (ScanActive \/ scans' # scans) => (disk' = disk \/ extOps' = extOps + 1)
    /\ (disk' # disk /\ extOps' = extOps) =>
          /\ ExecActive /\ ~ScanActive
          /\ requests >= 1
          /\ rename_button = "disabled"
          /\ RenameStep

\* C15: a scan performs no filesystem mutation; renames happen only during
\* an execution, after a rename request.
C15_ScanLeavesDirectory == [][C15_DiskStep]_vars

\* C15 witness: a completed scan that planned renames; every file still
\* has its original name and none of the proposed names exists.
C15_Witness ==
    /\ scanPc = "idle" /\ scans >= 1 /\ started = 0 /\ extOps = 0
    /\ requests = 0
    /\ Len(pending_renames) = 2
    /\ \A k \in DOMAIN pending_renames :
          /\ is_file(disk, pending_renames[k].original_name)
          /\ ~exists(disk, pending_renames[k].proposed_name)

\* C16, the steps: the scan task begins by clearing the entries, the
\* pending jobs, the counters and the progress value; an entry is added
\* only after that; and the first entry of a timestamp finds its counter
\* at 0, so its suffix is 0 unless that name exists in the directory.
C16_ClearStep ==
    /\ (scanPc = "submitted" /\ scanPc' = "running") =>
          /\ treeview' = <<>>
          /\ pending_renames' = <<>>
          /\ \A t \in Timestamps : date_counter'[t] = 0
          /\ rename_progress' = zero
    /\ Len(treeview') > Len(treeview) => (scanPc = "running" /\ scanPc' = "running")
    /\ (AddsRow /\ RowsOf(extracted'[Len(treeview')]) = {}) =>
          LET t == extracted'[Len(treeview')]
          IN /\ date_counter[t] = 0
             /\ ~exists(disk, CanonName(strftime(t), 0, suffix(NewRow.original_name)))
                   => NewRow.proposed_name.n = 0

\* C16, the states: the pending jobs are, in order, the entries of the
\* latest scan that got a proposed name, one job for each; until a batch
\* runs these are the entries that are Ready.
C16_PendingIsLatestPlan ==
    /\ \A k \in DOMAIN pending_renames :
          LET job == pending_renames[k]
          IN /\ job.item_id \in Rows
             /\ treeview[job.item_id].original_name = job.original_name
             /\ treeview[job.item_id].proposed_name = job.proposed_name
             /\ \A m \in DOMAIN pending_renames :
                   k < m => job.item_id < pending_renames[m].item_id
    /\ \A i \in Rows :
          (\E k \in DOMAIN pending_renames : pending_renames[k].item_id = i)
              <=> treeview[i].proposed_name # EmptyName
    /\ started = 0 =>
          \A i \in Rows : (treeview[i].status = READY
                              <=> treeview[i].proposed_name # EmptyName)

\* C16: a new scan clears all prior plan state before it produces an entry,
\* so after any sequence of scans the pending jobs are exactly the Ready
\* entries of the latest scan and the numbering of each timestamp restarts
\* at 0.
C16_ScanClearsPlan == []C16_PendingIsLatestPlan /\ [][C16_ClearStep]_vars

\* C16 witness: the same directory scanned twice with no batch in
\* between; the second plan has the two jobs of the first, once each, and
\* the first of them has suffix 0 again.
C16_Witness ==
    /\ scans = 2 /\ scanPc = "idle" /\ requests = 0 /\ extOps = 0
    /\ Len(treeview) = 2
    /\ Len(pending_renames) = 2
    /\ pending_renames[1].proposed_name.n = 0
    /\ \A i \in Rows : treeview[i].status = READY

\* the batch is over: every job has a terminal status, the progress value
\* is 1 and both triggers are enabled again
BatchOver ==
    /\ updPc = "idle"
    /\ \A i \in Jobs : futures_list[i].pc = "done" /\ futures_list[i].status \in Terminal
    /\ rename_progress = [num |-> 1, den |-> 1]
    /\ rename_button = "normal" /\ browse_button = "normal"

\* C17: with the pool's threads scheduled fairly, for a pool of any size
\* from one thread up and a batch of any number of jobs, every batch that
\* starts is eventually over: all jobs resolved, progress 1, UI unlocked,
\* although the collector waits on a thread of the same pool as the jobs.
C17_ExecutionTerminates == ExecActive ~> BatchOver

\* C17 witness: a batch of two jobs that ran to its end on a pool of one
\* thread.
C17_Witness ==
    /\ max_workers = 1
    /\ Len(futures_list) = 2
    /\ runs = 1 /\ started = 1
    /\ BatchOver

\* a job's rename is applied only onto a name that does not exist at that
\* moment, and no step leaves the directory with fewer files
C19_RenameOntoFreeName ==
    /\ \A i \in Jobs :
          (/\ futures_list[i].pc = "checked"
           /\ i \in DOMAIN futures_list'
           /\ futures_list'[i].status = RENAMED) =>
              ~exists(disk, futures_list[i].job.proposed_name)
    /\ Cardinality(disk') >= Cardinality(disk)

\* C19: an execution never destroys a file: under every interleaving of the
\* jobs and of files created by other processes, no rename lands on a name
\* that exists when it is applied, and the number of files never drops.
C19_NeverDestroysFile == [][C19_RenameOntoFreeName]_vars

\* C20, the states: no entry is NoChange; the proposed name of an entry
\* that has a timestamp is neither its own original name nor that of
\* another entry, and the entry has a rename job.
C20_NoEntryUnchanged ==
    \A i \in Rows :
        /\ treeview[i].status # NO_CHANGE
        /\ extracted[i] # None =>
              /\ \A j \in Rows : treeview[i].proposed_name # treeview[j].original_name
              /\ \E k \in DOMAIN pending_renames :
                    /\ pending_renames[k].item_id = i
                    /\ pending_renames[k].proposed_name = treeview[i].proposed_name

\* C20, the steps: an entry with a timestamp is added as Ready, with a name
\* that no file of the directory has, together with its job.
C20_AddedReady ==
    AddsRow =>
        /\ NewRow.status = READY
        /\ NewRow.proposed_name # NewRow.original_name
        /\ exists(disk, NewRow.original_name)
        /\ ~exists(disk, NewRow.proposed_name)
        /\ pending_renames' =
              Append(pending_renames,
                     RenameJob(Len(treeview'), NewRow.original_name, NewRow.proposed_name))

\* C20: no scan produces an entry with status NoChange: a proposed name is
\* never the original name of a planned file, so every entry with a
\* timestamp is Ready and gets a rename job.
C20_NeverNoChange == []C20_NoEntryUnchanged /\ [][C20_AddedReady]_vars

\* C20 witness: a scan of a directory that already holds a canonically
\* named file of the same timestamp and extension as a planned file; the
\* planned file is Ready under the next suffix, with its job.
C20_Witness ==
    /\ scanPc = "idle" /\ scans >= 1 /\ started = 0
    /\ \E i \in Rows, e \in disk :
          /\ treeview[i].status = READY
          /\ Canonical(e.name) /\ e.kind = "file"
          /\ treeview[i].proposed_name = [e.name EXCEPT !.n = e.name.n + 1]
          /\ \E k \in DOMAIN pending_renames : pending_renames[k].item_id = i

====
